---- MODULE Spec2Model ----
(***************************************************************************)
(* Real-time orderbook viewer: the connection manager (the hook            *)
(* useOrderbookData), its per-venue normalizer (parseOrderbookData) and    *)
(* the wire values they work on.                                           *)
(*                                                                         *)
(* JavaScript values are tagged records: [t |-> "undefined"],              *)
(* [t |-> "null"], [t |-> "number", n, d] (the rational n/d in lowest      *)
(* terms, d > 0), [t |-> "NaN"], [t |-> "string", s] (s a sequence of      *)
(* one-character strings), [t |-> "boolean", b], [t |-> "array", a],       *)
(* [t |-> "object", o] (o a function from field names to values).          *)
(***************************************************************************)
EXTENDS Integers, Sequences, FiniteSets, Bags, TLC

\* ------------------------------------------------------------------ bounds
\* Switches of venue/symbol plus manual reconnects in one behaviour.
MaxUserOps == 1
\* User operations in the behaviours of the message-stream checks.
StreamUserOps == 1
\* Saturation point of the count of consecutive transport failures.
MaxFailures == 2
\* Longest exhaustively enumerated side array of a raw book message.
MaxSmallLen == 2
\* Longest generated side array of a raw book message (beyond the clip depth).
MaxLevels == 17
\* Longest side of a book the order form is rendered with.
MaxSimLevels == 2
\* Significant bits a number keeps after each arithmetic operation (53 in an
\* IEEE 754 double).
MantissaBits == 8

\* ------------------------------------------------------- program constants
\* .slice(0, 15): the depth kept per side.
DEPTH == 15
\* setTimeout(..., 5000): the reconnect delay in milliseconds.
RECONNECT_DELAY == 5000

\* ---------------------------------------------------------------- JS values
Undef == [t |-> "undefined"]
Null == [t |-> "null"]
NaN == [t |-> "NaN"]
Str(chars) == [t |-> "string", s |-> chars]
Bool(b) == [t |-> "boolean", b |-> b]
Arr(seq) == [t |-> "array", a |-> seq]
Obj(fields) == [t |-> "object", o |-> fields]

Abs(i) == IF i < 0 THEN -i ELSE i

RECURSIVE Gcd(_, _)
Gcd(a, b) == IF b = 0 THEN a ELSE Gcd(b, a % b)

\* The number n/d (d > 0), in lowest terms.
Num(n, d) ==
  LET g == Gcd(Abs(n), d)
  IN  [t |-> "number", n |-> n \div g, d |-> d \div g]

IntNum(n) == Num(n, 1)

RECURSIVE Pow10(_)
Pow10(k) == IF k = 0 THEN 1 ELSE 10 * Pow10(k - 1)

Min(a, b) == IF a < b THEN a ELSE b

\* ToBoolean, as `if (x)` and `a && b` apply it.
Truthy(v) ==
  CASE v.t = "undefined" -> FALSE
    [] v.t = "null" -> FALSE
    [] v.t = "NaN" -> FALSE
    [] v.t = "number" -> v.n # 0
    [] v.t = "string" -> Len(v.s) > 0
    [] v.t = "boolean" -> v.b
    [] OTHER -> TRUE

IsNullish(v) == v.t \in {"undefined", "null"}

\* v.field for a v that is not nullish (a nullish v throws a TypeError,
\* which the callers test for first).
Get(v, field) ==
  IF v.t = "object" /\ field \in DOMAIN v.o THEN v.o[field] ELSE Undef

\* v[i] (0-based, i < 2) for a v that is not nullish.
Index(v, i) ==
  CASE v.t = "array" -> IF i < Len(v.a) THEN v.a[i + 1] ELSE Undef
    [] v.t = "string" -> IF i < Len(v.s) THEN Str(<<v.s[i + 1]>>) ELSE Undef
    [] v.t = "object" -> Get(v, IF i = 0 THEN "0" ELSE "1")
    [] OTHER -> Undef

\* ------------------------------------------------------ Number arithmetic
(***************************************************************************)
(* JavaScript numbers are binary floating point: the result of +, -, * and *)
(* / is the exact result rounded to the nearest number with MantissaBits   *)
(* significant bits, ties to the even one.  The exponent is not bounded    *)
(* (no overflow, no subnormals), and -0 is 0.                              *)
(***************************************************************************)
Infinity == [t |-> "Infinity"]

Pow2(k) == 2^k

\* The integer nearest to a/d (a >= 0, d > 0), ties to even.
NearestEven(a, d) ==
  LET q == a \div d
      r == a % d
  IN  IF 2 * r < d THEN q
      ELSE IF 2 * r > d THEN q + 1
      ELSE q + (q % 2)

\* a/d (a > 0, d > 0) rounded to MantissaBits significant bits, as the pair
\* <<numerator, denominator>>.
RECURSIVE ShiftDown(_, _)
ShiftDown(a, d) == IF a >= d * Pow2(MantissaBits) THEN 1 + ShiftDown(a, 2 * d) ELSE 0

RECURSIVE ShiftUp(_, _)
ShiftUp(a, d) == IF a < d * Pow2(MantissaBits - 1) THEN 1 + ShiftUp(2 * a, d) ELSE 0

RoundPos(a, d) ==
  IF a >= d * Pow2(MantissaBits)
  THEN \* too many bits: drop the low ones
       CHOOSE h \in {<<NearestEven(a, d * Pow2(k)) * Pow2(k), 1>> : k \in {ShiftDown(a, d)}} : TRUE
  ELSE CHOOSE h \in {<<NearestEven(a * Pow2(k), d), Pow2(k)>> : k \in {ShiftUp(a, d)}} : TRUE

\* The number nearest to n/d.
Round(n, d) ==
  IF n = 0 THEN Num(0, 1)
  ELSE LET h == RoundPos(Abs(n), d)
       IN  Num((IF n < 0 THEN -1 ELSE 1) * h[1], h[2])

IsNum(x) == x.t = "number"

\* x + y, x - y, x * y, x / y on numbers, NaN and (from a division by zero)
\* Infinity.
FAdd(x, y) ==
  IF IsNum(x) /\ IsNum(y) THEN Round(x.n * y.d + y.n * x.d, x.d * y.d) ELSE NaN

FSub(x, y) ==
  IF IsNum(x) /\ IsNum(y) THEN Round(x.n * y.d - y.n * x.d, x.d * y.d) ELSE NaN

FMul(x, y) ==
  IF IsNum(x) /\ IsNum(y) THEN Round(x.n * y.n, x.d * y.d)
  ELSE IF x = Infinity /\ IsNum(y) /\ y.n > 0 THEN Infinity
  ELSE NaN

FDiv(x, y) ==
  IF ~(IsNum(x) /\ IsNum(y)) THEN NaN
  ELSE IF y.n = 0 THEN (IF x.n = 0 THEN NaN ELSE Infinity)
  ELSE Round((IF y.n < 0 THEN -1 ELSE 1) * x.n * y.d, x.d * Abs(y.n))

\* x < y, x <= y, x > y: false when an operand is NaN.
Less(x, y) == IsNum(x) /\ IsNum(y) /\ x.n * y.d < y.n * x.d
LessEq(x, y) == IsNum(x) /\ IsNum(y) /\ x.n * y.d <= y.n * x.d
Greater(x, y) == Less(y, x)

\* Math.min(x, y): NaN when an operand is NaN.
MathMin(x, y) ==
  IF ~(IsNum(x) /\ IsNum(y)) THEN NaN ELSE IF LessEq(x, y) THEN x ELSE y

\* Math.abs(x)
MathAbs(x) == IF IsNum(x) THEN [x EXCEPT !.n = Abs(@)] ELSE x

Zero == IntNum(0)
Hundred == IntNum(100)

\* ------------------------------------------------- Number.parseFloat/parseInt
Digits == {"0", "1", "2", "3", "4", "5", "6", "7", "8", "9"}

DigitVal(c) ==
  CASE c = "0" -> 0 [] c = "1" -> 1 [] c = "2" -> 2 [] c = "3" -> 3
    [] c = "4" -> 4 [] c = "5" -> 5 [] c = "6" -> 6 [] c = "7" -> 7
    [] c = "8" -> 8 [] c = "9" -> 9

Tail0(cs, k) == SubSeq(cs, k + 1, Len(cs))

\* Number of leading white-space characters.
RECURSIVE LeadingSpaces(_)
LeadingSpaces(cs) ==
  IF cs # <<>> /\ Head(cs) = " " THEN 1 + LeadingSpaces(Tail(cs)) ELSE 0

\* Number of leading decimal digits.
RECURSIVE LeadingDigits(_)
LeadingDigits(cs) ==
  IF cs # <<>> /\ Head(cs) \in Digits THEN 1 + LeadingDigits(Tail(cs)) ELSE 0

\* Value of a sequence of decimal digits.
RECURSIVE DigitsValue(_)
DigitsValue(ds) ==
  IF ds = <<>> THEN 0
  ELSE 10 * DigitsValue(SubSeq(ds, 1, Len(ds) - 1)) + DigitVal(ds[Len(ds)])

\* parseFloat of a string: the longest prefix, after white space, of the form
\* [+-] digits [. digits] or [+-] . digits, as the nearest number; NaN when
\* there is none.  The input alphabet holds no exponent letter and no
\* "Infinity".
ParseFloatChars(cs) ==
  LET s1 == Tail0(cs, LeadingSpaces(cs))
      signed == s1 # <<>> /\ Head(s1) \in {"-", "+"}
      sign == IF s1 # <<>> /\ Head(s1) = "-" THEN -1 ELSE 1
      s2 == IF signed THEN Tail(s1) ELSE s1
      ni == LeadingDigits(s2)
      s3 == Tail0(s2, ni)
      dot == s3 # <<>> /\ Head(s3) = "."
      nf == IF dot THEN LeadingDigits(Tail(s3)) ELSE 0
      ipart == DigitsValue(SubSeq(s2, 1, ni))
      fpart == IF dot THEN DigitsValue(SubSeq(Tail(s3), 1, nf)) ELSE 0
  IN  IF ni = 0 /\ nf = 0 THEN NaN
      ELSE Round(sign * (ipart * Pow10(nf) + fpart), Pow10(nf))

\* Number.parseFloat(v): v is converted to a string first.  An array's string
\* is its elements' strings joined by ",", and the "," ends the number.
RECURSIVE ParseFloat(_)
ParseFloat(v) ==
  CASE v.t = "string" -> ParseFloatChars(v.s)
    [] v.t = "number" -> v
    [] v.t = "array" -> IF v.a = <<>> THEN NaN ELSE ParseFloat(v.a[1])
    [] OTHER -> NaN

\* parseInt of a string, radix 10: [+-] digits after white space.
ParseIntChars(cs) ==
  LET s1 == Tail0(cs, LeadingSpaces(cs))
      signed == s1 # <<>> /\ Head(s1) \in {"-", "+"}
      sign == IF s1 # <<>> /\ Head(s1) = "-" THEN -1 ELSE 1
      s2 == IF signed THEN Tail(s1) ELSE s1
      ni == LeadingDigits(s2)
  IN  IF ni = 0 THEN NaN ELSE IntNum(sign * DigitsValue(SubSeq(s2, 1, ni)))

\* Number.parseInt(v): the integer part of a number, the digits of a string.
RECURSIVE ParseInt(_)
ParseInt(v) ==
  CASE v.t = "string" -> ParseIntChars(v.s)
    [] v.t = "number" ->
         IntNum(IF v.n < 0 THEN -(Abs(v.n) \div v.d) ELSE v.n \div v.d)
    [] v.t = "array" -> IF v.a = <<>> THEN NaN ELSE ParseInt(v.a[1])
    [] OTHER -> NaN

\* ------------------------------------------------------ parseOrderbookData
Venues == {"OKX", "Bybit", "Deribit"}

\* `([price, quantity]) => ...` applied to one element of a side array:
\* arrays and strings are iterable, anything else throws a TypeError.
Iterable(e) == e.t \in {"array", "string"}

\* Slice without the clip.
SliceUnclipped(levels) == levels

\* .slice(0, 15)
Slice(levels) == SubSeq(levels, 1, Min(DEPTH, Len(levels)))

\* The level OKX and Bybit make of one element: both parts through parseFloat.
FloatLevel(e) ==
  [price |-> ParseFloat(Index(e, 0)), quantity |-> ParseFloat(Index(e, 1))]

\* The level Deribit makes of one element: both parts as they arrive.
RawLevel(e) == [price |-> Index(e, 0), quantity |-> Index(e, 1)]

\* A map that refuses an array without elements.
MapSideRejectingEmpty(arr, float) ==
  IF arr.t # "array" \/ Len(arr.a) = 0 \/ \E i \in 1..Len(arr.a) : ~Iterable(arr.a[i])
  THEN [threw |-> TRUE, levels |-> <<>>]
  ELSE [threw |-> FALSE,
        levels |-> Slice([i \in 1..Len(arr.a) |->
                     IF float THEN FloatLevel(arr.a[i]) ELSE RawLevel(arr.a[i])])]

\* side.map(([price, quantity]) => level).slice(0, 15); `threw` when side is
\* not an array (side.map is not a function, or side is undefined) or an
\* element cannot be destructured.
MapSide(arr, float) ==
  IF arr.t # "array" \/ \E i \in 1..Len(arr.a) : ~Iterable(arr.a[i])
  THEN [threw |-> TRUE, levels |-> <<>>]
  ELSE [threw |-> FALSE,
        levels |-> Slice([i \in 1..Len(arr.a) |->
                     IF float THEN FloatLevel(arr.a[i]) ELSE RawLevel(arr.a[i])])]

\* The object literal a venue branch returns; the catch block turns a throw
\* of either map into null.
Snapshot(bids, asks, timestamp, sym, v) ==
  IF bids.threw \/ asks.threw THEN Null
  ELSE [t |-> "snapshot", bids |-> bids.levels, asks |-> asks.levels,
        timestamp |-> timestamp, symbol |-> sym, venue |-> v]

ParseOKX(data) ==
  IF IsNullish(data) THEN Null
  ELSE LET d == Get(data, "data") IN
    IF ~Truthy(d) THEN Null
    ELSE LET book == Index(d, 0) IN
      IF ~Truthy(book) THEN Null
      ELSE Snapshot(MapSide(Get(book, "bids"), TRUE), MapSide(Get(book, "asks"), TRUE),
                    ParseInt(Get(book, "ts")), Get(book, "instId"), "OKX")

ParseBybit(data) ==
  IF IsNullish(data) THEN Null
  ELSE LET d == Get(data, "data") IN
    IF ~Truthy(d) THEN Null
    ELSE Snapshot(MapSide(Get(d, "b"), TRUE), MapSide(Get(d, "a"), TRUE),
                  Get(data, "ts"), Get(d, "s"), "Bybit")

ParseDeribit(data) ==
  IF IsNullish(data) THEN Null
  ELSE LET p == Get(data, "params") IN
    IF ~Truthy(p) THEN Null
    ELSE LET book == Get(p, "data") IN
      IF ~Truthy(book) THEN Null
      ELSE Snapshot(MapSide(Get(book, "bids"), FALSE), MapSide(Get(book, "asks"), FALSE),
                    Get(book, "timestamp"), Get(book, "instrument_name"), "Deribit")

\* parseOrderbookData(venue, data): the switch over the venue; any other
\* venue falls through to `return null`.
parseOrderbookData(v, data) ==
  CASE v = "OKX" -> ParseOKX(data)
    [] v = "Bybit" -> ParseBybit(data)
    [] v = "Deribit" -> ParseDeribit(data)
    [] OTHER -> Null

\* ------------------------------------------------------- raw wire messages
\* Raw messages are built from descriptors, so that the sets the checks
\* draw from hold only strings and numbers.
BTC_USDT == <<"B", "T", "C", "-", "U", "S", "D", "T">>
ETH_USDT == <<"E", "T", "H", "-", "U", "S", "D", "T">>

DigitChar(d) ==
  CASE d = 0 -> "0" [] d = 1 -> "1" [] d = 2 -> "2" [] d = 3 -> "3"
    [] d = 4 -> "4" [] d = 5 -> "5" [] d = 6 -> "6" [] d = 7 -> "7"
    [] d = 8 -> "8" [] d = 9 -> "9"

\* The decimal digits of a natural number, as a venue writes a numeric string.
RECURSIVE NumToChars(_)
NumToChars(n) ==
  IF n < 10 THEN <<DigitChar(n)>>
  ELSE Append(NumToChars(n \div 10), DigitChar(n % 10))

\* A price or quantity p + h/2 on the wire: OKX and Bybit send numeric
\* strings, Deribit sends numbers.
WireNum(env, p, half) ==
  IF env = "Deribit" THEN Num(2 * p + (IF half THEN 1 ELSE 0), 2)
  ELSE Str(NumToChars(p) \o (IF half THEN <<".", "5">> ELSE <<>>))

\* One element of a side array, by kind.
WireElem(env, kind) ==
  CASE kind = "lo" -> Arr(<<WireNum(env, 100, FALSE), WireNum(env, 1, FALSE)>>)
    [] kind = "hi" -> Arr(<<WireNum(env, 101, FALSE), WireNum(env, 2, TRUE)>>)
    [] kind = "short" -> Arr(<<WireNum(env, 100, FALSE)>>)
    [] kind = "bad" -> IntNum(7)

ElemKinds == {"lo", "hi", "short", "bad"}
Orders == {"asc", "desc", "zig"}

\* The price of the i-th of n generated levels.
GenPrice(order, n, i) ==
  CASE order = "asc" -> 100 + i
    [] order = "desc" -> 100 + n - i
    [] order = "zig" -> IF i % 2 = 1 THEN 100 + i ELSE 100 + n - i

\* A side of a book payload, by descriptor.
WireSide(env, sd) ==
  CASE sd.kind = "absent" -> Undef
    [] sd.kind = "scalar" -> Str(<<"x">>)
    [] sd.kind = "small" -> Arr([i \in 1..Len(sd.elems) |-> WireElem(env, sd.elems[i])])
    [] sd.kind = "gen" ->
         Arr([i \in 1..sd.n |->
               Arr(<<WireNum(env, GenPrice(sd.order, sd.n, i), FALSE),
                     WireNum(env, i, FALSE)>>)])

\* An object with the fields whose value is not undefined (a JSON text has
\* no undefined).
ObjOf(names, vals) ==
  Obj([f \in {g \in names : vals[g].t # "undefined"} |-> vals[f]])

WireTs(env, present) ==
  IF ~present THEN Undef
  ELSE IF env = "OKX" THEN Str(NumToChars(1700)) ELSE IntNum(1700)

WireId(present) == IF present THEN Str(BTC_USDT) ELSE Undef

\* The book payload in the envelope a venue's branch of parseOrderbookData
\* reads: data.data[0] (OKX), data.data and data.ts (Bybit), data.params.data
\* (Deribit).
WireBook(env, d) ==
  CASE env = "OKX" ->
         Obj([data |-> Arr(<<ObjOf({"bids", "asks", "ts", "instId"},
                [bids |-> WireSide(env, d.bids), asks |-> WireSide(env, d.asks),
                 ts |-> WireTs(env, d.ts), instId |-> WireId(d.id)])>>)])
    [] env = "Bybit" ->
         ObjOf({"data", "ts"},
           [data |-> ObjOf({"b", "a", "s"},
                [b |-> WireSide(env, d.bids), a |-> WireSide(env, d.asks),
                 s |-> WireId(d.id)]),
            ts |-> WireTs(env, d.ts)])
    [] env = "Deribit" ->
         Obj([params |-> Obj([data |-> ObjOf({"bids", "asks", "timestamp", "instrument_name"},
                [bids |-> WireSide(env, d.bids), asks |-> WireSide(env, d.asks),
                 timestamp |-> WireTs(env, d.ts), instrument_name |-> WireId(d.id)])])])

\* The decoded JSON value of a raw message, by descriptor.  Shapes: a book,
\* a subscription acknowledgement, the JSON text `null`, an envelope whose
\* payload is empty, an envelope whose payload is a string.
WireData(d) ==
  CASE d.shape = "book" -> WireBook(d.env, d)
    [] d.shape = "ack" -> Obj([event |-> Str(<<"s", "u", "b">>)])
    [] d.shape = "null" -> Null
    [] d.shape = "empty" ->
         IF d.env = "OKX" THEN Obj([data |-> Arr(<<>>)])
         ELSE IF d.env = "Bybit" THEN Obj([data |-> Obj(<<>>)])
         ELSE Obj([params |-> Obj(<<>>)])
    [] d.shape = "scalar" ->
         IF d.env = "Deribit" THEN Obj([params |-> Obj([data |-> Str(<<"x">>)])])
         ELSE Obj([data |-> Str(<<"x">>)])

\* ------------------------------------------------------ useOrderbookData
\* The venues the consumer selects among in the lifecycle checks: two of the
\* Venue type and one for which getWebSocketUrl has no case.
HookVenues == {"OKX", "Bybit", "Kraken"}
Symbols == {BTC_USDT, ETH_USDT}

\* A string produced by the hook itself (an error message).
Msg(text) == [t |-> "message", s |-> text]

(***************************************************************************)
(* A WebSocket object is a record [venue, symbol, st, sent]: the props of  *)
(* the render whose connect() created it (its callbacks close over them),  *)
(* its state, and the messages it has sent.                                *)
(* st is "CONNECTING" or "OPEN" (readyState), "CLOSING" (close() called on *)
(* an open socket, close event due), "ABORTING" (close() called on a       *)
(* connecting socket: readyState CLOSING, error and close events due),     *)
(* "FAILED" (error event delivered after a transport error, close event    *)
(* due), "ABORTED" (error event delivered after an abort, close event      *)
(* due), "CLOSED" (close event delivered).  wsRef holds the object         *)
(* wsRef.current names (NoSocket for null); the objects no reference names *)
(* any more but whose events the browser still delivers are the bag        *)
(* `orphans`.  Timers likewise: reconnectTimeoutRef holds the handle the   *)
(* ref names, `timers` the pending timeouts no reference names.            *)
(***************************************************************************)
NoSocket == [venue |-> "-", symbol |-> <<>>, st |-> "NONE", sent |-> <<>>]

NewSocket(v, sym) == [venue |-> v, symbol |-> sym, st |-> "CONNECTING", sent |-> <<>>]

\* null
NoTimer == [set |-> FALSE, pending |-> FALSE, venue |-> "-", symbol |-> <<>>, delay |-> 0]

\* A handle whose timeout fired or was cleared.
SpentTimer == [set |-> TRUE, pending |-> FALSE, venue |-> "-", symbol |-> <<>>, delay |-> 0]

VARIABLES
  venue,                \* prop: the selected venue
  symbol,               \* prop: the selected symbol
  mounted,              \* "pending" (rendered, effect not yet run), "mounted", "unmounted"
  orderbookData,        \* useState: null or the latest snapshot
  isConnected,          \* useState
  error,                \* useState: null or a message
  wsRef,                \* useRef: the socket it names
  reconnectTimeoutRef,  \* useRef: the timer handle it names
  orphans,              \* bag: the sockets alive that wsRef does not name
  timers,               \* bag: the pending timeouts the ref does not name
  feed,                 \* the frames the venues send in this behaviour
  failCap,              \* history: where the count of failures saturates
  ev,                   \* history: the last event handled
  opsLeft,              \* history: user operations still allowed
  failures,             \* history: consecutive transport failures
  lastGood,             \* history: the last received frame that normalized, and its socket's key
  pVenue,               \* normalizer check: the venue argument
  pMsg,                 \* normalizer check: the raw message's descriptor
  pResult,              \* normalizer check: the value returned
  orderType,            \* form useState: "market" or "limit"
  side,                 \* form useState: "buy" or "sell"
  price,                \* form useState: the text of the price input
  quantity,             \* form useState: the text of the quantity input
  simulatedOrder        \* page useState: null or the order the form emitted

vars == <<venue, symbol, mounted, orderbookData, isConnected, error, wsRef,
          reconnectTimeoutRef, orphans, timers, feed, failCap, ev, opsLeft,
          failures, lastGood, pVenue, pMsg, pResult, orderType, side, price,
          quantity, simulatedOrder>>

simVars == <<orderType, side, price, quantity, simulatedOrder>>

parseVars == <<pVenue, pMsg, pResult>>

getWebSocketUrl(v) ==
  CASE v = "OKX" -> "wss://ws.okx.com:8443/ws/v5/public"
    [] v = "Bybit" -> "wss://stream.bybit.com/v5/public/linear"
    [] v = "Deribit" -> "wss://www.deribit.com/ws/api/v2"
    [] OTHER -> ""

getSubscriptionMessage(v, sym) ==
  CASE v = "OKX" ->
         Obj([op |-> Str(<<"s", "u", "b", "s", "c", "r", "i", "b", "e">>),
              args |-> Arr(<<Obj([channel |-> Str(<<"b", "o", "o", "k", "s">>),
                                  instId |-> Str(sym)])>>)])
    [] v = "Bybit" ->
         Obj([op |-> Str(<<"s", "u", "b", "s", "c", "r", "i", "b", "e">>),
              args |-> Arr(<<Str(<<"o", "r", "d", "e", "r", "b", "o", "o", "k",
                                   ".", "5", "0", ".">> \o sym)>>)])
    [] v = "Deribit" ->
         Obj([jsonrpc |-> Str(<<"2", ".", "0">>),
              method |-> Str(<<"p", "u", "b", "l", "i", "c", "/", "s", "u", "b",
                               "s", "c", "r", "i", "b", "e">>),
              id |-> IntNum(1),
              params |-> Obj([channels |-> Arr(<<Str(<<"b", "o", "o", "k", ".">>
                                \o sym \o <<".", "1", "0", "0", "m", "s">>)>>)])])
    [] OTHER -> Obj(<<>>)

\* The frames of the connection-manager checks, by name: a text that is not
\* JSON, an acknowledgement, a book per venue and a second, different one
\* for OKX, a book without its asks.
SmallSide(elems) == [kind |-> "small", elems |-> elems, n |-> 0, order |-> "asc"]
AbsentSide == [kind |-> "absent", elems |-> <<>>, n |-> 0, order |-> "asc"]

BookMsg(env, bids, asks) ==
  [shape |-> "book", env |-> env, bids |-> bids, asks |-> asks, ts |-> TRUE, id |-> TRUE]

FrameNames ==
  {"garbage", "ack", "okx1", "okx2", "okxNoAsks", "bybit1", "deribit1"}

FrameMsg(f) ==
  CASE f = "okx1" -> BookMsg("OKX", SmallSide(<<"lo">>), SmallSide(<<"hi">>))
    [] f = "okx2" -> BookMsg("OKX", SmallSide(<<"hi", "lo">>), SmallSide(<<>>))
    [] f = "okxNoAsks" -> BookMsg("OKX", SmallSide(<<"lo">>), AbsentSide)
    [] f = "bybit1" -> BookMsg("Bybit", SmallSide(<<"lo">>), SmallSide(<<"hi">>))
    [] f = "deribit1" -> BookMsg("Deribit", SmallSide(<<"lo">>), SmallSide(<<"hi">>))
    [] OTHER -> [shape |-> "ack", env |-> "OKX", bids |-> AbsentSide,
                 asks |-> AbsentSide, ts |-> FALSE, id |-> FALSE]

\* JSON.parse(event.data): throws on a text that is not JSON.
JSONParse(f) ==
  IF f = "garbage" THEN [threw |-> TRUE, value |-> Undef]
  ELSE [threw |-> FALSE, value |-> WireData(FrameMsg(f))]

NoFrame == "-"

\* The last event: its kind and, for a message, the venue of the socket it
\* arrived on and the frame.
Event(op, v, f) == [op |-> op, venue |-> v, frame |-> f]

\* A state setter: React drops the update of an unmounted component.
SetState(new, old) == IF mounted = "unmounted" THEN old ELSE new

\* WebSocket.close(): an open socket starts its closing handshake, a
\* connecting one is aborted (the browser then fires error and close); a
\* closing or closed one, and null?.close(), are left as they are.
WsClose(sock) ==
  IF sock.st = "OPEN" THEN [sock EXCEPT !.st = "CLOSING"]
  ELSE IF sock.st = "CONNECTING" THEN [sock EXCEPT !.st = "ABORTING"]
  ELSE sock

\* clearTimeout(reconnectTimeoutRef.current), under `if (ref.current)`.
ClearTimeout(h) == IF h.set THEN SpentTimer ELSE h

\* A socket the browser still has events for.
Alive(sock) == sock.st \notin {"NONE", "CLOSED"}

One(x) == SetToBag({x})

\* `if (wsRef.current?.readyState === WebSocket.OPEN) wsRef.current.close()`
CloseIfOpen(sock) ==
  IF sock.st = "OPEN" THEN [sock EXCEPT !.st = "CLOSING"] ELSE sock

\* connect() of the render with props (v, sym), run with wsRef.current = ref,
\* the other sockets orph, error = err and isConnected = conn: the values it
\* leaves.  thr says whether `new WebSocket(wsUrl)` throws, which enters
\* the catch before wsRef.current is assigned.
Connect(v, sym, ref, orph, err, conn, thr) ==
  LET old == CloseIfOpen(ref)
  IN  IF getWebSocketUrl(v) = ""
      THEN [wsRef |-> old, orphans |-> orph,
            error |-> SetState(Msg("WebSocket URL not available for " \o v), err),
            isConnected |-> conn]
      ELSE IF thr
      THEN [wsRef |-> old, orphans |-> orph,
            error |-> SetState(Msg("Failed to connect to " \o v), err),
            isConnected |-> SetState(FALSE, conn)]
      ELSE [wsRef |-> NewSocket(v, sym),
            orphans |-> IF Alive(old) THEN orph (+) One(old) ELSE orph,
            error |-> err,
            isConnected |-> conn]

\* Whether a call of connect() for venue v with outcome thr of the
\* constructor ends in the catch.
ConnectFailed(v, thr) == thr /\ getWebSocketUrl(v) # ""

\* The name of the event of a handler that called connect().
ConnectEvent(op, v, thr) == IF ConnectFailed(v, thr) THEN "connectFailed" ELSE op

\* The cleanup of the effect, on the socket: `if (wsRef.current) wsRef.current.close()`.
CleanupSocket(ref) == WsClose(ref)

\* The cleanup of the effect, on the timer.
CleanupTimer(h) == ClearTimeout(h)

\* ------------------------------------------------------------------ Init
\* The last frame that normalized, the venue of its socket, and the last
\* different frame that had normalized before it.
NoGood == [venue |-> "-", symbol |-> <<>>, frame |-> NoFrame, prev |-> NoFrame]

ParseIdle ==
  /\ pVenue = "OKX"
  /\ pMsg = FrameMsg("ack")
  /\ pResult = [t |-> "pending"]

\* The order form as it is first rendered, and no simulated order.
SimIdle ==
  /\ orderType = "limit"
  /\ side = "buy"
  /\ price = <<>>
  /\ quantity = <<>>
  /\ simulatedOrder = Null

\* The hook rendered with props (v, sym); the effect has not run yet.
HookInit(v, sym) ==
  /\ venue = v
  /\ symbol = sym
  /\ mounted = "pending"
  /\ orderbookData = Null
  /\ isConnected = FALSE
  /\ error = Null
  /\ wsRef = NoSocket
  /\ reconnectTimeoutRef = NoTimer
  /\ orphans = EmptyBag
  /\ timers = EmptyBag
  /\ ev = Event("render", "-", NoFrame)
  /\ failures = 0
  /\ lastGood = NoGood

\* The frames of the lifecycle checks.
LifecycleFeed == {"okx1"}

\* OrderbookViewer renders the hook with ("OKX", "BTC-USDT").
Init ==
  /\ HookInit("OKX", BTC_USDT)
  /\ feed = LifecycleFeed
  /\ opsLeft = MaxUserOps
  /\ failCap = 0
  /\ ParseIdle
  /\ SimIdle

\* --------------------------------------------------------------- the effect
\* useEffect(() => { connect(); ... }, [connect]) on the first render.
Mount(thr) ==
  /\ mounted = "pending"
  /\ LET c == Connect(venue, symbol, wsRef, orphans, error, isConnected, thr)
     IN  /\ wsRef' = c.wsRef
         /\ orphans' = c.orphans
         /\ error' = c.error
         /\ isConnected' = c.isConnected
  /\ mounted' = "mounted"
  /\ ev' = Event(ConnectEvent("mount", venue, thr), "-", NoFrame)
  /\ UNCHANGED <<venue, symbol, orderbookData, reconnectTimeoutRef,
                 timers, feed, failCap, opsLeft, failures, lastGood, parseVars,
                 simVars>>

\* The consumer selects another venue (the tabs) or another symbol (the
\* form): `connect` changes identity, the old effect's cleanup runs and then
\* the new effect's connect().
Switch(v, sym, thr) ==
  /\ mounted = "mounted"
  /\ opsLeft > 0
  /\ (v = venue) # (sym = symbol)
  /\ LET c == Connect(v, sym, CleanupSocket(wsRef), orphans, error, isConnected, thr)
     IN  /\ wsRef' = c.wsRef
         /\ orphans' = c.orphans
         /\ error' = c.error
         /\ isConnected' = c.isConnected
  /\ reconnectTimeoutRef' = CleanupTimer(reconnectTimeoutRef)
  /\ venue' = v
  /\ symbol' = sym
  /\ opsLeft' = opsLeft - 1
  /\ ev' = Event(ConnectEvent("switch", v, thr), "-", NoFrame)
  /\ UNCHANGED <<mounted, orderbookData, timers, feed, failCap,
                 failures, lastGood, parseVars, simVars>>

\* The consumer unmounts: the cleanup runs and nothing follows it.
Unmount ==
  /\ mounted = "mounted"
  /\ wsRef' = CleanupSocket(wsRef)
  /\ reconnectTimeoutRef' = CleanupTimer(reconnectTimeoutRef)
  /\ mounted' = "unmounted"
  /\ ev' = Event("unmount", "-", NoFrame)
  /\ UNCHANGED <<venue, symbol, orderbookData, isConnected, error, orphans, timers,
                 feed, failCap, opsLeft, failures, lastGood, parseVars, simVars>>

\* reconnect(): clear the timer the ref names, then connect().
Reconnect(thr) ==
  /\ mounted = "mounted"
  /\ opsLeft > 0
  /\ LET c == Connect(venue, symbol, wsRef, orphans, error, isConnected, thr)
     IN  /\ wsRef' = c.wsRef
         /\ orphans' = c.orphans
         /\ error' = c.error
         /\ isConnected' = c.isConnected
  /\ reconnectTimeoutRef' = ClearTimeout(reconnectTimeoutRef)
  /\ opsLeft' = opsLeft - 1
  /\ ev' = Event(ConnectEvent("reconnect", venue, thr), "-", NoFrame)
  /\ UNCHANGED <<venue, symbol, mounted, orderbookData, timers, feed,
                 failCap, failures, lastGood, parseVars, simVars>>

\* ------------------------------------------------------- socket callbacks
\* The sockets an event can arrive on: the one wsRef names, or another.
Candidates(who) == IF who = "ref" THEN {wsRef} ELSE BagToSet(orphans)

\* Socket r (named by wsRef, or not) becomes r2; a closed socket that no
\* reference names is garbage.
Put(who, r, r2) ==
  IF who = "ref"
  THEN wsRef' = r2 /\ orphans' = orphans
  ELSE /\ wsRef' = wsRef
       /\ orphans' = (orphans (-) One(r)) (+) (IF Alive(r2) THEN One(r2) ELSE EmptyBag)

\* The subscription for the key the consumer has selected at the time.
SubscriptionOfSelected(r) == getSubscriptionMessage(venue, symbol)

\* getSubscriptionMessage(venue, symbol) in ws.onopen of socket r: venue and
\* symbol are those of the render whose connect() created r.  ws.send is
\* handed its JSON text, which names the same object.
Subscription(r) == getSubscriptionMessage(r.venue, r.symbol)

\* ws.onopen
OnOpen(who, r) ==
  /\ r.st = "CONNECTING"
  /\ Put(who, r, [r EXCEPT !.st = "OPEN", !.sent = Append(@, Subscription(r))])
  /\ isConnected' = SetState(TRUE, isConnected)
  /\ error' = SetState(Null, error)
  /\ failures' = 0
  /\ ev' = Event("open", "-", NoFrame)
  /\ UNCHANGED <<venue, symbol, mounted, orderbookData, reconnectTimeoutRef,
                 timers, feed, failCap, opsLeft, lastGood, parseVars, simVars>>

\* `parseOrderbookData(venue, JSON.parse(event.data))` inside the try of
\* ws.onmessage: null stands for the throw the catch swallows.
ParsedFrame(v, f) ==
  LET j == JSONParse(f)
  IN  IF j.threw THEN Null ELSE parseOrderbookData(v, j.value)

\* ParsedFrame, tabulated once for the frames of the checks.
ParsedFrames == [v \in Venues |-> [f \in FrameNames |-> ParsedFrame(v, f)]]

\* MessageData clearing the snapshot when the frame does not normalize.
MessageDataClearing(v, f, old) ==
  LET parsedData == ParsedFrames[v][f]
  IN  IF Truthy(parsedData) THEN SetState(parsedData, old) ELSE SetState(Null, old)

\* MessageData merging the new levels into the stored snapshot.
MessageDataMerging(v, f, old) ==
  LET parsedData == ParsedFrames[v][f]
  IN  IF ~Truthy(parsedData) THEN old
      ELSE IF old = Null THEN SetState(parsedData, old)
      ELSE SetState([parsedData EXCEPT !.bids = @ \o old.bids, !.asks = @ \o old.asks], old)

\* What ws.onmessage leaves in orderbookData for frame f on a socket of venue v.
MessageData(v, f, old) ==
  LET parsedData == ParsedFrames[v][f]
  IN  IF Truthy(parsedData) THEN SetState(parsedData, old) ELSE old

\* Whether frame f normalizes to a snapshot on a socket of venue v.
Normalizes(v, f) == ParsedFrames[v][f] # Null

\* ws.onmessage: the browser delivers messages to an open socket only.
OnMessage(who, r, f) ==
  /\ r.st = "OPEN"
  /\ f \in feed
  /\ orderbookData' = MessageData(r.venue, f, orderbookData)
  /\ lastGood' = IF Normalizes(r.venue, f)
                 THEN [venue |-> r.venue, symbol |-> r.symbol, frame |-> f,
                       prev |-> IF lastGood.frame = f THEN lastGood.prev
                                ELSE lastGood.frame]
                 ELSE lastGood
  /\ ev' = Event("message", r.venue, f)
  /\ UNCHANGED <<venue, symbol, mounted, isConnected, error, wsRef,
                 reconnectTimeoutRef, orphans, timers, feed, failCap, opsLeft,
                 failures, parseVars, simVars>>

\* ws.onerror
ErrorHandler(who, r, st2, op) ==
  /\ Put(who, r, [r EXCEPT !.st = st2])
  /\ error' = SetState(Msg("WebSocket connection error for " \o r.venue), error)
  /\ isConnected' = SetState(FALSE, isConnected)
  /\ ev' = Event(op, "-", NoFrame)
  /\ UNCHANGED <<venue, symbol, mounted, orderbookData, reconnectTimeoutRef,
                 timers, feed, failCap, opsLeft, lastGood, parseVars, simVars>>

\* A transport error on a connecting or open socket: the browser fires
\* error, and close after it.
TransportError(who, r) ==
  /\ r.st \in {"CONNECTING", "OPEN"}
  /\ failures' = Min(failures + 1, failCap)
  /\ ErrorHandler(who, r, "FAILED", "transportError")

\* The error event of a socket closed while it was connecting.
AbortError(who, r) ==
  /\ r.st = "ABORTING"
  /\ failures' = failures
  /\ ErrorHandler(who, r, "ABORTED", "abortError")

\* ReconnectTimer giving up once MaxFailures consecutive failures are counted.
ReconnectTimerCapped(sock) ==
  IF failures >= MaxFailures THEN SpentTimer
  ELSE [set |-> TRUE, pending |-> TRUE, venue |-> sock.venue, symbol |-> sock.symbol,
        delay |-> RECONNECT_DELAY]

\* The timer ws.onclose sets: setTimeout(() => connect(), 5000), connect
\* being the one of the render that created the socket.
ReconnectTimer(sock) ==
  [set |-> TRUE, pending |-> TRUE, venue |-> sock.venue, symbol |-> sock.symbol,
   delay |-> RECONNECT_DELAY]

\* ws.onclose
CloseHandler(who, r, op) ==
  /\ Put(who, r, [r EXCEPT !.st = "CLOSED"])
  /\ isConnected' = SetState(FALSE, isConnected)
  /\ timers' = IF reconnectTimeoutRef.pending THEN timers (+) One(reconnectTimeoutRef)
               ELSE timers
  /\ reconnectTimeoutRef' = ReconnectTimer(r)
  /\ ev' = Event(op, "-", NoFrame)
  /\ UNCHANGED <<venue, symbol, mounted, orderbookData, error, feed, failCap,
                 opsLeft, failures, lastGood, parseVars, simVars>>

\* The close event that ends a local close() or follows an error event.
DeliverClose(who, r) ==
  /\ r.st \in {"CLOSING", "FAILED", "ABORTED"}
  /\ CloseHandler(who, r, IF r.st = "FAILED" THEN "errorClose" ELSE "close")

\* A remote close handled as a failure that ends the connection for good:
\* the error is recorded and no timeout is set.
RemoteCloseRecordingError(who, r) ==
  /\ r.st = "OPEN"
  /\ failures' = failures
  /\ ErrorHandler(who, r, "CLOSED", "remoteClose")

\* The venue closes an open socket cleanly.
RemoteClose(who, r) ==
  /\ r.st = "OPEN"
  /\ CloseHandler(who, r, "remoteClose")

\* The pending timeouts: the one the ref names, and the others.
PendingTimers(who) ==
  IF who = "ref" THEN {h \in {reconnectTimeoutRef} : h.pending} ELSE BagToSet(timers)

\* A reconnect timer fires: connect() of the render that set it.
TimerFire(who, h, thr) ==
  /\ IF who = "ref"
     THEN reconnectTimeoutRef' = SpentTimer /\ timers' = timers
     ELSE reconnectTimeoutRef' = reconnectTimeoutRef /\ timers' = timers (-) One(h)
  /\ LET c == Connect(h.venue, h.symbol, wsRef, orphans, error, isConnected, thr)
     IN  /\ wsRef' = c.wsRef
         /\ orphans' = c.orphans
         /\ error' = c.error
         /\ isConnected' = c.isConnected
  /\ ev' = Event(ConnectEvent("timer", h.venue, thr), "-", NoFrame)
  /\ UNCHANGED <<venue, symbol, mounted, orderbookData, feed, failCap,
                 opsLeft, failures, lastGood, parseVars, simVars>>

Who == {"ref", "orphan"}

Next ==
  \/ Mount(FALSE)
  \/ \E v \in HookVenues, sym \in Symbols : Switch(v, sym, FALSE)
  \/ Unmount
  \/ Reconnect(FALSE)
  \/ \E who \in Who : \E r \in Candidates(who) : OnOpen(who, r)
  \/ \E who \in Who : \E r \in Candidates(who), f \in FrameNames : OnMessage(who, r, f)
  \/ \E who \in Who : \E r \in Candidates(who) : TransportError(who, r)
  \/ \E who \in Who : \E r \in Candidates(who) : AbortError(who, r)
  \/ \E who \in Who : \E r \in Candidates(who) : DeliverClose(who, r)
  \/ \E who \in Who : \E r \in Candidates(who) : RemoteClose(who, r)
  \/ \E who \in Who : \E h \in PendingTimers(who) : TimerFire(who, h, FALSE)

Spec == Init /\ [][Next]_vars

\* One stream: the hook rendered with any key that has an endpoint, every
\* frame of FrameNames on the wire, manual reconnects but no change of key.
StreamInit ==
  /\ \E v \in Venues : HookInit(v, BTC_USDT)
  /\ feed = FrameNames
  /\ opsLeft = StreamUserOps
  /\ failCap = 0
  /\ ParseIdle
  /\ SimIdle

StreamNext ==
  \/ Mount(FALSE)
  \/ Unmount
  \/ Reconnect(FALSE)
  \/ \E who \in Who : \E r \in Candidates(who) : OnOpen(who, r)
  \/ \E who \in Who : \E r \in Candidates(who), f \in FrameNames : OnMessage(who, r, f)
  \/ \E who \in Who : \E r \in Candidates(who) : TransportError(who, r)
  \/ \E who \in Who : \E r \in Candidates(who) : AbortError(who, r)
  \/ \E who \in Who : \E r \in Candidates(who) : DeliverClose(who, r)
  \/ \E who \in Who : \E r \in Candidates(who) : RemoteClose(who, r)
  \/ \E who \in Who : \E h \in PendingTimers(who) : TimerFire(who, h, FALSE)

StreamSpec == StreamInit /\ [][StreamNext]_vars

\* Unattended operation: the hook rendered with any key that has an endpoint
\* and left alone until it is unmounted; transport failures are counted up to
\* MaxFailures in a row.
RetryFeed == {"okx1", "garbage"}

RetryInit ==
  /\ \E v \in Venues : HookInit(v, BTC_USDT)
  /\ feed = RetryFeed
  /\ opsLeft = 0
  /\ failCap = MaxFailures
  /\ ParseIdle
  /\ SimIdle

RetryNext ==
  \/ Mount(FALSE)
  \/ Unmount
  \/ \E who \in Who : \E r \in Candidates(who) : OnOpen(who, r)
  \/ \E who \in Who : \E r \in Candidates(who), f \in FrameNames : OnMessage(who, r, f)
  \/ \E who \in Who : \E r \in Candidates(who) : TransportError(who, r)
  \/ \E who \in Who : \E r \in Candidates(who) : AbortError(who, r)
  \/ \E who \in Who : \E r \in Candidates(who) : DeliverClose(who, r)
  \/ \E who \in Who : \E r \in Candidates(who) : RemoteClose(who, r)
  \/ \E who \in Who : \E h \in PendingTimers(who) : TimerFire(who, h, FALSE)

\* The browser fires close after every error event and after close(), and
\* fires a timeout that is not cleared; nothing else is bound to happen.
RetrySpec ==
  /\ RetryInit
  /\ [][RetryNext]_vars
  /\ WF_vars(\E who \in Who : \E r \in Candidates(who) : AbortError(who, r))
  /\ WF_vars(\E who \in Who : \E r \in Candidates(who) : DeliverClose(who, r))
  /\ WF_vars(\E who \in Who : \E h \in PendingTimers(who) : TimerFire(who, h, FALSE))

\* Unattended operation in a browser whose WebSocket constructor may throw:
\* every call of connect() either creates the socket or ends in its catch.
CreateNext ==
  \/ \E thr \in BOOLEAN : Mount(thr)
  \/ Unmount
  \/ \E who \in Who : \E r \in Candidates(who) : OnOpen(who, r)
  \/ \E who \in Who : \E r \in Candidates(who), f \in FrameNames : OnMessage(who, r, f)
  \/ \E who \in Who : \E r \in Candidates(who) : TransportError(who, r)
  \/ \E who \in Who : \E r \in Candidates(who) : AbortError(who, r)
  \/ \E who \in Who : \E r \in Candidates(who) : DeliverClose(who, r)
  \/ \E who \in Who : \E r \in Candidates(who) : RemoteClose(who, r)
  \/ \E who \in Who : \E h \in PendingTimers(who), thr \in BOOLEAN : TimerFire(who, h, thr)

CreateSpec == RetryInit /\ [][CreateNext]_vars

\* --------------------------------------------- the normalizer on its own
ScalarSide == [kind |-> "scalar", elems |-> <<>>, n |-> 0, order |-> "asc"]
GenSide(n, order) == [kind |-> "gen", elems |-> <<>>, n |-> n, order |-> order]

\* The side arrays of the raw messages: absent, not an array, every array of
\* up to MaxSmallLen elements, and generated arrays of DEPTH..MaxLevels levels
\* in ascending, descending and mixed price order.
SideDescs ==
  {AbsentSide, ScalarSide}
  \cup {SmallSide(e) : e \in UNION {[1..k -> ElemKinds] : k \in 0..MaxSmallLen}}
  \cup {GenSide(n, o) : n \in DEPTH..MaxLevels, o \in Orders}

\* Book messages in the envelope of the venue they are parsed for.
BookMsgs ==
  [shape : {"book"}, env : Venues, bids : SideDescs, asks : SideDescs,
   ts : BOOLEAN, id : BOOLEAN]

\* Messages that carry no book, and books in another venue's envelope.
OtherMsgs ==
  [shape : {"ack", "null", "empty", "scalar", "book"}, env : Venues,
   bids : {SmallSide(<<"lo">>)}, asks : {SmallSide(<<"hi">>)}, ts : {TRUE}, id : {TRUE}]

ParseInit ==
  /\ HookInit("OKX", BTC_USDT)
  /\ feed = LifecycleFeed
  /\ opsLeft = 0
  /\ failCap = 0
  /\ \/ \E m \in BookMsgs : pMsg = m /\ pVenue = m.env
     \/ \E m \in OtherMsgs, v \in Venues : pMsg = m /\ pVenue = v
  /\ pResult = [t |-> "pending"]
  /\ SimIdle

\* parseOrderbookData(venue, data) is called on the decoded message.
ParseCall ==
  /\ pResult.t = "pending"
  /\ pResult' = parseOrderbookData(pVenue, WireData(pMsg))
  /\ UNCHANGED <<venue, symbol, mounted, orderbookData, isConnected, error, wsRef,
                 reconnectTimeoutRef, orphans, timers, feed, failCap, ev, opsLeft,
                 failures, lastGood, pVenue, pMsg, simVars>>

ParseNext == ParseCall

ParseSpec == ParseInit /\ [][ParseNext]_vars

\* ------------------------------------------- InteractiveOrderSimulationForm
Chars(str) ==
  CASE str = "" -> <<>>
    [] str = "0" -> <<"0">>
    [] str = "-1" -> <<"-", "1">>
    [] str = "2" -> <<"2">>
    [] str = "5" -> <<"5">>
    [] str = "100" -> <<"1", "0", "0">>
    [] str = "258" -> <<"2", "5", "8">>
    [] str = "300" -> <<"3", "0", "0">>

\* The five metrics with every field 0.
ZeroMetrics ==
  [estimatedFill |-> Zero, marketImpact |-> Zero, slippage |-> Zero,
   averagePrice |-> Zero, worstPrice |-> Zero]

\* OpposingLevels taking the order's own side of the book.
OwnLevels(sd, book) == IF sd = "buy" THEN book.bids ELSE book.asks

\* const levels = side === "buy" ? orderbookData.asks : orderbookData.bids
OpposingLevels(sd, book) == IF sd = "buy" THEN book.asks ELSE book.bids

\* The four accumulators before the loop.
WalkStart(orderQuantity) ==
  [remainingQuantity |-> orderQuantity, totalCost |-> Zero,
   totalQuantityFilled |-> Zero, worstPrice |-> Zero]

\* One pass of the loop body over level.
WalkStep(acc, level) ==
  LET quantityAtLevel == MathMin(acc.remainingQuantity, level.quantity)
  IN  [remainingQuantity |-> FSub(acc.remainingQuantity, quantityAtLevel),
       totalCost |-> FAdd(acc.totalCost, FMul(quantityAtLevel, level.price)),
       totalQuantityFilled |-> FAdd(acc.totalQuantityFilled, quantityAtLevel),
       worstPrice |-> level.price]

\* A walk that takes from the best level only.
WalkBestLevelOnly(levels, i, acc) ==
  IF i > Len(levels) \/ i > 1 \/ LessEq(acc.remainingQuantity, Zero) THEN acc
  ELSE WalkStep(acc, levels[i])

\* `for (const level of levels) { if (remainingQuantity <= 0) break ... }`
\* from level i on.
RECURSIVE Walk(_, _, _)
Walk(levels, i, acc) ==
  IF i > Len(levels) \/ LessEq(acc.remainingQuantity, Zero) THEN acc
  ELSE Walk(levels, i + 1, WalkStep(acc, levels[i]))

\* levels.reduce((sum, level) => sum + level.quantity, 0) over the first k levels.
RECURSIVE SumQuantity(_, _)
SumQuantity(levels, k) ==
  IF k = 0 THEN Zero ELSE FAdd(SumQuantity(levels, k - 1), levels[k].quantity)

\* levels[0]?.price || 0
BestPrice(levels) ==
  IF Len(levels) = 0 THEN Zero
  ELSE IF Truthy(levels[1].price) THEN levels[1].price ELSE Zero

\* The market impact without the test for an empty side.
MarketImpactUnguarded(w, levels) ==
  FMul(FDiv(w.totalQuantityFilled, SumQuantity(levels, Len(levels))), Hundred)

\* levels.length > 0 ? (totalQuantityFilled / levels.reduce(...)) * 100 : 0
MarketImpact(w, levels) ==
  IF Len(levels) > 0
  THEN FMul(FDiv(w.totalQuantityFilled, SumQuantity(levels, Len(levels))), Hundred)
  ELSE Zero

\* The lines after the loop: the metrics of the accumulators w the loop
\* has left.
MetricsAfterWalk(w, orderQuantity, levels) ==
  LET estimatedFill == FMul(FDiv(w.totalQuantityFilled, orderQuantity), Hundred)
      averagePrice == IF Greater(w.totalQuantityFilled, Zero)
                      THEN FDiv(w.totalCost, w.totalQuantityFilled) ELSE Zero
      bestPrice == BestPrice(levels)
      slippage == IF Greater(bestPrice, Zero)
                  THEN FMul(MathAbs(FDiv(FSub(averagePrice, bestPrice), bestPrice)),
                            Hundred)
                  ELSE Zero
      marketImpact == MarketImpact(w, levels)
  IN  [estimatedFill |-> estimatedFill, marketImpact |-> marketImpact,
       slippage |-> slippage, averagePrice |-> averagePrice,
       worstPrice |-> w.worstPrice]

\* A simulator that lets a limit order take only the levels its limit price
\* allows.
CalculateMarketImpactWithinLimit(typ, sd, prc, qty, book) ==
  IF ~Truthy(book) \/ qty = <<>> THEN ZeroMetrics
  ELSE
    LET orderQuantity == ParseFloatChars(qty)
        limit == ParseFloatChars(prc)
        Allowed(level) == \/ typ = "market"
                          \/ sd = "buy" /\ LessEq(level.price, limit)
                          \/ sd = "sell" /\ LessEq(limit, level.price)
        levels == SelectSeq(OpposingLevels(sd, book), Allowed)
    IN  CHOOSE m \in {MetricsAfterWalk(w, orderQuantity, levels) :
                        w \in {Walk(levels, 1, WalkStart(orderQuantity))}} : TRUE

\* calculateMarketImpact() of a render with the given form state and book.
CalculateMarketImpact(typ, sd, prc, qty, book) ==
  IF ~Truthy(book) \/ qty = <<>> THEN ZeroMetrics
  ELSE
    LET orderQuantity == ParseFloatChars(qty)
        levels == OpposingLevels(sd, book)
    IN  CHOOSE m \in {MetricsAfterWalk(w, orderQuantity, levels) :
                        w \in {Walk(levels, 1, WalkStart(orderQuantity))}} : TRUE

\* calculateMarketImpact() of the current render.
calculateMarketImpact ==
  CalculateMarketImpact(orderType, side, price, quantity, orderbookData)

\* const isFormValid = quantity && (orderType === "market" || price)
isFormValid == quantity # <<>> /\ (orderType = "market" \/ price # <<>>)

\* const metrics = calculateMarketImpact(), evaluated on every render.
metrics == calculateMarketImpact

\* timingMap[timing] for the timing the form starts with.
Timing == "immediate"
TimeToFill == Zero

\* The SimulatedOrder handleSimulate builds.
SimulatedOrder(m) ==
  [t |-> "order", venue |-> venue, symbol |-> symbol, side |-> side,
   type |-> orderType,
   price |-> IF orderType = "limit" THEN ParseFloatChars(price) ELSE Undef,
   quantity |-> ParseFloatChars(quantity), timing |-> Timing,
   estimatedFill |-> m.estimatedFill, marketImpact |-> m.marketImpact,
   slippage |-> m.slippage, timeToFill |-> TimeToFill]

\* handleSimulate, one click of the Simulate button; the page's
\* handleOrderSimulation stores the order it is handed.
handleSimulate ==
  /\ ev.op # "simulate"
  /\ simulatedOrder' =
       IF quantity = <<>> \/ (orderType = "limit" /\ price = <<>>)
       THEN simulatedOrder
       ELSE SimulatedOrder(calculateMarketImpact)
  /\ ev' = Event("simulate", "-", NoFrame)
  /\ UNCHANGED <<venue, symbol, mounted, orderbookData, isConnected, error, wsRef,
                 reconnectTimeoutRef, orphans, timers, feed, failCap, opsLeft,
                 failures, lastGood, parseVars, orderType, side, price, quantity>>

\* A level of a book.
Level(p, q) == [price |-> p, quantity |-> q]

\* The levels of the books the form is rendered with: a quantity may be 0,
\* and 255 + 2 is not a number of MantissaBits bits.
SimLevels ==
  {Level(IntNum(100), IntNum(1)), Level(IntNum(101), IntNum(2)),
   Level(IntNum(102), IntNum(300)), Level(IntNum(100), IntNum(255)),
   Level(IntNum(101), IntNum(0))}

\* The sides, in any order of price.
SimSides == UNION {[1..k -> SimLevels] : k \in 0..MaxSimLevels}

\* The side the order does not walk.
OtherSide == <<Level(IntNum(99), IntNum(1))>>

BookOf(bids, asks) ==
  [t |-> "snapshot", bids |-> bids, asks |-> asks, timestamp |-> IntNum(1700),
   symbol |-> Str(BTC_USDT), venue |-> "OKX"]

\* The texts of the quantity input.
QuantityTexts == {"", "0", "-1", "2", "5", "258", "300"}

\* The order type with the text of the price input (which a market order
\* does not show).
TypeAndPrice == {<<"market", "">>, <<"limit", "">>, <<"limit", "100">>}

\* The form with any input the consumer can have typed, rendered with no
\* book yet or with a book the hook has delivered.
SimInit ==
  /\ venue = "OKX"
  /\ symbol = BTC_USDT
  /\ mounted = "mounted"
  /\ isConnected = TRUE
  /\ error = Null
  /\ wsRef = [NewSocket("OKX", BTC_USDT) EXCEPT
               !.st = "OPEN", !.sent = <<getSubscriptionMessage("OKX", BTC_USDT)>>]
  /\ reconnectTimeoutRef = NoTimer
  /\ orphans = EmptyBag
  /\ timers = EmptyBag
  /\ ev = Event("render", "-", NoFrame)
  /\ failures = 0
  /\ lastGood = NoGood
  /\ feed = LifecycleFeed
  /\ opsLeft = 0
  /\ failCap = 0
  /\ ParseIdle
  /\ simulatedOrder = Null
  /\ \E tp \in TypeAndPrice : orderType = tp[1] /\ price = Chars(tp[2])
  /\ side \in {"buy", "sell"}
  /\ \E txt \in QuantityTexts : quantity = Chars(txt)
  /\ \/ orderbookData = Null
     \/ \E s1 \in SimSides :
          orderbookData = IF side = "buy" THEN BookOf(OtherSide, s1)
                          ELSE BookOf(s1, OtherSide)

SimNext == handleSimulate

SimSpec == SimInit /\ [][SimNext]_vars

\* ================================================================ claims
Key(sock) == <<sock.venue, sock.symbol>>

\* A socket that is connecting or open.
Live(sock) == sock.st \in {"CONNECTING", "OPEN"}

\* The sockets alive, wsRef's included.
AllSockets == {wsRef} \cup BagToSet(orphans)

\* The number of live sockets.
LiveCount ==
  (IF Live(wsRef) THEN 1 ELSE 0)
  + BagCardinality([r \in {q \in BagToSet(orphans) : Live(q)} |-> orphans[r]])

\* The number of pending reconnect timers.
PendingCount == (IF reconnectTimeoutRef.pending THEN 1 ELSE 0) + BagCardinality(timers)

\* C1: once the consumer has switched venue or symbol, the old key's socket
\* is closed and no connection to the old key is opened again or takes the
\* place of the new key's socket: while the hook is mounted on a venue that
\* has an endpoint, every live socket is one of the selected (venue, symbol).
C1_OnlySelectedKeyLive ==
  (mounted = "mounted" /\ getWebSocketUrl(venue) # "") =>
    \A r \in AllSockets : Live(r) => Key(r) = <<venue, symbol>>

\* C2: after the consumer has unmounted, the manager's socket (the one wsRef
\* names) is not live and no reconnect timer is pending, also once the close
\* event of the socket the cleanup closed has been delivered.
C2_NothingAfterUnmount ==
  mounted = "unmounted" => ~Live(wsRef) /\ PendingCount = 0

\* Every timeout the hook has set, pending or named by the ref.
AllTimers == BagToSet(timers) \cup {h \in {reconnectTimeoutRef} : h.pending}

C4_AtMostOneLiveSocket == LiveCount <= 1

\* C5: right after reconnect() (the selected venue having an endpoint) no
\* reconnect timer is pending, the socket that was current is no longer
\* live, and exactly one fresh connection attempt for the selected key is
\* under way.
C5_ReconnectStartsAfresh ==
  (ev.op = "reconnect" /\ getWebSocketUrl(venue) # "") =>
    /\ PendingCount = 0
    /\ LiveCount = 1
    /\ wsRef.st = "CONNECTING"
    /\ Key(wsRef) = <<venue, symbol>>

\* C6: a received frame that does not normalize to a snapshot (parse yields
\* null, or the text is not JSON) leaves the stored snapshot, the connection
\* status and the error as they were.
C6_MalformedFrameIgnored ==
  [][(ev'.op = "message" /\ ~Normalizes(ev'.venue, ev'.frame))
       => (orderbookData' = orderbookData /\ isConnected' = isConnected
           /\ error' = error)]_vars

\* C6 witness: the OKX book without asks has just been received on an OKX
\* socket while a snapshot is stored, and the snapshot is still there.
C6_Witness ==
  /\ ev.op = "message"
  /\ ev.frame = "okxNoAsks"
  /\ ev.venue = "OKX"
  /\ orderbookData # Null
  /\ mounted = "mounted"

\* C7: while the consumer is mounted, the snapshot it sees is the one
\* normalized from the most recently received frame that normalized, whole:
\* null before the first such frame.
C7_LatestSnapshotWhole ==
  mounted # "unmounted" =>
    orderbookData = IF lastGood.frame = NoFrame THEN Null
                    ELSE ParsedFrame(lastGood.venue, lastGood.frame)

\* C7 witness: the second OKX book (no asks levels) has replaced the first
\* (one ask level), and the snapshot has no ask level.
C7_Witness ==
  /\ mounted = "mounted"
  /\ lastGood.frame = "okx2"
  /\ lastGood.prev = "okx1"
  /\ orderbookData.t = "snapshot"
  /\ Len(orderbookData.asks) = 0
  /\ Len(orderbookData.bids) = 2

\* a >= b on JavaScript numbers (false when either is not a number).
NumGeq(a, b) == a.t = "number" /\ b.t = "number" /\ a.n * b.d >= b.n * a.d

\* Every level of the side has a number for its price.
PricesAreNumbers(levels) == \A i \in 1..Len(levels) : levels[i].price.t = "number"

\* C8: in every snapshot parse returns (of a message whose levels all carry
\* a numeric price), the bids are in descending and the asks in ascending
\* price order.
C8_SidesSorted ==
  (/\ pResult.t = "snapshot"
   /\ PricesAreNumbers(pResult.bids)
   /\ PricesAreNumbers(pResult.asks)) =>
    /\ \A i \in 1..(Len(pResult.bids) - 1) :
         NumGeq(pResult.bids[i].price, pResult.bids[i + 1].price)
    /\ \A i \in 1..(Len(pResult.asks) - 1) :
         NumGeq(pResult.asks[i + 1].price, pResult.asks[i].price)

\* C9: every snapshot parse returns has at most 15 levels on each side.
C9_DepthBound ==
  pResult.t = "snapshot" =>
    Len(pResult.bids) <= DEPTH /\ Len(pResult.asks) <= DEPTH

\* C9 witness: a message with more than 15 bids and more than 15 asks has
\* been parsed into a snapshot of 15 and 15.
C9_Witness ==
  /\ pResult.t = "snapshot"
  /\ pMsg.bids.kind = "gen" /\ pMsg.bids.n > DEPTH
  /\ pMsg.asks.kind = "gen" /\ pMsg.asks.n > DEPTH
  /\ Len(pResult.bids) = DEPTH
  /\ Len(pResult.asks) = DEPTH

\* A field of a snapshot that holds a value.
Defined(v) == v.t \notin {"undefined", "NaN"}

\* C10: parse returns a snapshot only of a message that carries both side
\* arrays, the timestamp and the instrument identifier, and no field of the
\* snapshot is missing or undefined.
C10_NoPartialSnapshot ==
  pResult.t = "snapshot" =>
    /\ pMsg.shape = "book"
    /\ pMsg.bids.kind # "absent" /\ pMsg.asks.kind # "absent"
    /\ pMsg.ts /\ pMsg.id
    /\ Defined(pResult.timestamp) /\ Defined(pResult.symbol)


\* ---------------------------------------------------------- the simulator
\* The order the form holds is pre-validated: a book is there and the
\* quantity is a number above 0.
PreValidated == orderbookData # Null /\ Greater(ParseFloatChars(quantity), Zero)

\* The reference walk over the first k levels: remaining, cost, filled and
\* the price of the last level visited.
RefVisit(p, level) ==
  LET take == MathMin(p.remaining, level.quantity)
  IN  IF LessEq(p.remaining, Zero) THEN p
      ELSE [remaining |-> FSub(p.remaining, take),
            cost |-> FAdd(p.cost, FMul(take, level.price)),
            filled |-> FAdd(p.filled, take),
            worstPrice |-> level.price]

RECURSIVE RefWalk(_, _, _)
RefWalk(levels, q, k) ==
  IF k = 0 THEN [remaining |-> q, cost |-> Zero, filled |-> Zero, worstPrice |-> Zero]
  ELSE CHOOSE r \in {RefVisit(p, levels[k]) : p \in {RefWalk(levels, q, k - 1)}} : TRUE

\* The reference result for an order of quantity q on side sd against book.
RefMetrics(w, q, levels) ==
  LET bestPrice == IF Len(levels) = 0 THEN Zero ELSE levels[1].price
      averagePrice == IF w.filled = Zero THEN Zero ELSE FDiv(w.cost, w.filled)
  IN  [averagePrice |-> averagePrice,
       slippage |-> IF bestPrice = Zero THEN Zero
                    ELSE FMul(FDiv(MathAbs(FSub(averagePrice, bestPrice)), bestPrice),
                              Hundred),
       estimatedFill |-> FMul(FDiv(w.filled, q), Hundred),
       worstPrice |-> w.worstPrice,
       remaining |-> w.remaining,
       filled |-> w.filled]

RefResult(sd, q, book) ==
  LET levels == IF sd = "buy" THEN book.asks ELSE book.bids
  IN  CHOOSE r \in {RefMetrics(w, q, levels) : w \in {RefWalk(levels, q, Len(levels))}} : TRUE

RECURSIVE ExactSum(_, _)
ExactSum(levels, k) ==
  IF k = 0 THEN Zero
  ELSE CHOOSE r \in {Num(a.n * levels[k].quantity.d + levels[k].quantity.n * a.d,
                         a.d * levels[k].quantity.d) : a \in {ExactSum(levels, k - 1)}} : TRUE

\* The order quantity the simulator walks with, and the side it walks.
OrderQuantity == ParseFloatChars(quantity)
WalkedSide == OpposingLevels(side, orderbookData)

\* The accumulators the loop of the current render leaves.
WalkResult == Walk(WalkedSide, 1, WalkStart(OrderQuantity))

\* The order quantity is positive and at most the depth of the walked side,
\* both as the exact sum and as the sum the code computes.
WithinDepth ==
  /\ PreValidated
  /\ LessEq(OrderQuantity, ExactSum(WalkedSide, Len(WalkedSide)))
  /\ LessEq(OrderQuantity, SumQuantity(WalkedSide, Len(WalkedSide)))

\* C12: fill conservation. For an order quantity that is positive and at most
\* the sum of the opposing quantities, the quantity left after the walk is
\* exactly 0 and the estimated fill percentage is equal to 100, in the metrics
\* of the render and in an emitted order.
C12_FillConservation ==
  WithinDepth =>
    /\ WalkResult.remainingQuantity = Zero
    /\ metrics.estimatedFill = Hundred
    /\ simulatedOrder # Null => simulatedOrder.estimatedFill = Hundred

\* The order quantity is positive and above the depth of the walked side,
\* which has a level.
BeyondDepth ==
  /\ PreValidated
  /\ Len(WalkedSide) > 0
  /\ Less(ExactSum(WalkedSide, Len(WalkedSide)), OrderQuantity)
  /\ Less(SumQuantity(WalkedSide, Len(WalkedSide)), OrderQuantity)

EmptyOpposingSide == PreValidated /\ Len(WalkedSide) = 0

\* C14: with an empty opposing side and a positive quantity nothing is
\* divided by zero: estimated fill, slippage, market impact, average price
\* and worst price are all the number 0, in the metrics of the render and in
\* an emitted order.
C14_EmptySideAllZero ==
  EmptyOpposingSide =>
    /\ metrics = ZeroMetrics
    /\ \A f \in DOMAIN ZeroMetrics : metrics[f] = Zero
    /\ simulatedOrder # Null =>
         /\ simulatedOrder.estimatedFill = Zero
         /\ simulatedOrder.marketImpact = Zero
         /\ simulatedOrder.slippage = Zero

\* A Sell of 5 against a book without bids has been simulated.
C14_Witness ==
  /\ simulatedOrder # Null
  /\ EmptyOpposingSide
  /\ side = "sell"
  /\ quantity = Chars("5")
  /\ orderbookData.bids = <<>>
  /\ orderbookData.asks # <<>>
  /\ simulatedOrder.estimatedFill = Zero

\* C15: the simulator's result does not depend on the order type or on the
\* limit price: the metrics of the render, and those an emitted order carries,
\* are the ones any other order type and price text give for the same side,
\* quantity and book.
C15_IndependentOfTypeAndPrice ==
  \A m \in {metrics} :
      /\ \A tp \in TypeAndPrice :
           CalculateMarketImpact(tp[1], side, Chars(tp[2]), quantity, orderbookData) = m
      /\ simulatedOrder # Null =>
           /\ simulatedOrder.estimatedFill = m.estimatedFill
           /\ simulatedOrder.marketImpact = m.marketImpact
           /\ simulatedOrder.slippage = m.slippage

\* A limit Buy of 2 at 100 against asks [{100, 1}, {101, 2}] has been
\* simulated: the walk has gone past the limit price, to 101.
C15_Witness ==
  /\ simulatedOrder # Null
  /\ orderbookData # Null
  /\ orderType = "limit"
  /\ price = Chars("100")
  /\ side = "buy"
  /\ quantity = Chars("2")
  /\ orderbookData.asks = <<Level(IntNum(100), IntNum(1)), Level(IntNum(101), IntNum(2))>>
  /\ simulatedOrder.price = IntNum(100)
  /\ metrics.worstPrice = IntNum(101)
  /\ simulatedOrder.estimatedFill = Hundred

\* The order request the form holds is invalid: the quantity is missing or
\* not above 0, or the order is a limit order without a price.
InvalidRequest ==
  \/ quantity = <<>>
  \/ ~Greater(OrderQuantity, Zero)
  \/ orderType = "limit" /\ price = <<>>

\* C16: an order request with a non-positive quantity, or of type Limit with
\* no limit price, is rejected: no simulated order is emitted to the consumer
\* for it.
C16_InvalidRequestRejected == InvalidRequest => simulatedOrder = Null

\* ------------------------------------------------- connection failures
\* C17: while the mounted hook's venue has no endpoint, connect() has recorded
\* an error, no socket is connecting or open and no reconnect timer is
\* pending, also when a socket of the previous venue was live at the time of
\* the switch.
C17_UnsupportedVenueNoRetry ==
  (mounted = "mounted" /\ getWebSocketUrl(venue) = "") =>
    /\ error # Null
    /\ \A r \in AllSockets : ~Live(r)
    /\ PendingCount = 0

\* C18: every transport failure of the mounted hook (an error event on a
\* connecting or open socket, the close that follows it, or a WebSocket
\* constructor that throws) leaves a non-null error and isConnected false,
\* and once the failure is complete a reconnect timeout of 5000 ms is pending.
C18_TransportFailureRetries ==
  mounted = "mounted" =>
    /\ ev.op \in {"transportError", "errorClose", "connectFailed"} =>
         error # Null /\ isConnected = FALSE
    /\ ev.op \in {"errorClose", "connectFailed"} =>
         reconnectTimeoutRef.pending /\ reconnectTimeoutRef.delay = RECONNECT_DELAY

\* The socket has not opened: nothing was sent on it.
NeverOpened(r) == r.st \in {"CONNECTING", "ABORTING", "ABORTED"}

\* C19: each socket sends its subscription exactly once, when it opens and
\* not before, and the payload is the one of the (venue, symbol) the socket
\* was created for; the open event leaves the mounted hook connected and
\* without error.
C19_SubscribesOnceAtOpen ==
  /\ \A r \in AllSockets :
       /\ NeverOpened(r) => r.sent = <<>>
       /\ r.st \in {"OPEN", "CLOSING"} =>
            r.sent = <<getSubscriptionMessage(r.venue, r.symbol)>>
       /\ r.sent \in {<<>>, <<getSubscriptionMessage(r.venue, r.symbol)>>}
  /\ (ev.op = "open" /\ mounted = "mounted") => isConnected = TRUE /\ error = Null

\* A socket created by a stale reconnect timer for ("OKX", "BTC-USDT") has
\* opened while the consumer has "Bybit" selected, and has subscribed to OKX.
C19_Witness ==
  /\ ev.op = "open"
  /\ mounted = "mounted"
  /\ venue = "Bybit"
  /\ wsRef.st = "OPEN"
  /\ wsRef.venue = "OKX"
  /\ wsRef.sent = <<getSubscriptionMessage("OKX", BTC_USDT)>>
  /\ isConnected = TRUE
  /\ error = Null

\* C20: a clean remote close of the open socket of the mounted hook leaves it
\* not connected with no error recorded (the error is what it was, null) and
\* a reconnect timeout of 5000 ms pending, and the hook connects again later
\* on without any consumer action (or has been unmounted).
C20_CleanCloseReconnects ==
  /\ []((ev.op = "remoteClose" /\ mounted = "mounted") =>
          /\ wsRef.st = "CLOSED"
          /\ isConnected = FALSE
          /\ error = Null
          /\ reconnectTimeoutRef.pending
          /\ reconnectTimeoutRef.delay = RECONNECT_DELAY)
  /\ [][ev'.op = "remoteClose" => error' = error]_vars
  /\ (ev.op = "remoteClose" /\ mounted = "mounted")
       ~> ((ev.op = "timer" /\ wsRef.st = "CONNECTING") \/ mounted = "unmounted")

\* The venue has closed the socket that had opened and subscribed; the hook
\* is mounted, not connected and without error, and the timeout is pending.
C20_Witness ==
  /\ ev.op = "remoteClose"
  /\ mounted = "mounted"
  /\ wsRef.st = "CLOSED"
  /\ wsRef.sent # <<>>
  /\ isConnected = FALSE
  /\ error = Null
  /\ reconnectTimeoutRef.pending

\* ------------------------------------------------------- empty book sides
\* The side array of the message is present and has no element.
EmptyArray(sd) == sd.kind = "small" /\ sd.elems = <<>>

\* The side array of the message is an array of [price, quantity] pairs.
ArrayOfPairs(sd) ==
  \/ sd.kind = "gen"
  \/ sd.kind = "small" /\ \A i \in 1..Len(sd.elems) : sd.elems[i] \in {"lo", "hi"}

\* The number of elements of a side array of pairs, and the level its i-th
\* element stands for.
PairCount(sd) == IF sd.kind = "gen" THEN sd.n ELSE Len(sd.elems)

PairLevel(sd, i) ==
  IF sd.kind = "gen"
  THEN [price |-> IntNum(GenPrice(sd.order, sd.n, i)), quantity |-> IntNum(i)]
  ELSE IF sd.elems[i] = "lo" THEN [price |-> IntNum(100), quantity |-> IntNum(1)]
  ELSE [price |-> IntNum(101), quantity |-> Num(5, 2)]

\* The levels of the snapshot side are those of the first 15 pairs of sd.
Intact(levels, sd) ==
  /\ Len(levels) = Min(DEPTH, PairCount(sd))
  /\ \A i \in 1..Len(levels) : levels[i] = PairLevel(sd, i)

\* C21: of a book message whose bid array or ask array is present but empty
\* (the other side being an array of pairs), parse returns a snapshot, not
\* null, with no level on the empty side and the other side's levels intact.
C21_EmptySideKept ==
  (/\ pResult.t # "pending"
   /\ pMsg.shape = "book"
   /\ pMsg.env = pVenue) =>
    /\ (EmptyArray(pMsg.bids) /\ ArrayOfPairs(pMsg.asks)) =>
         /\ pResult.t = "snapshot"
         /\ pResult.bids = <<>>
         /\ Intact(pResult.asks, pMsg.asks)
    /\ (EmptyArray(pMsg.asks) /\ ArrayOfPairs(pMsg.bids)) =>
         /\ pResult.t = "snapshot"
         /\ pResult.asks = <<>>
         /\ Intact(pResult.bids, pMsg.bids)

\* An OKX book with bids [] and two asks has been parsed into a snapshot
\* without bids and with both asks.
C21_Witness ==
  /\ pResult.t = "snapshot"
  /\ pVenue = "OKX"
  /\ pMsg.shape = "book"
  /\ pMsg.bids = SmallSide(<<>>)
  /\ pMsg.asks = SmallSide(<<"lo", "hi">>)
  /\ pResult.bids = <<>>
  /\ pResult.asks = <<[price |-> IntNum(100), quantity |-> IntNum(1)],
                      [price |-> IntNum(101), quantity |-> Num(5, 2)]>>


\* ------------------------------------------- OrderbookDisplay: the metrics
\* bids.reduce((sum, bid) => sum + bid.price * bid.quantity, 0)
RECURSIVE SumNotional(_, _)
SumNotional(levels, k) ==
  IF k = 0 THEN Zero
  ELSE FAdd(SumNotional(levels, k - 1), FMul(levels[k].price, levels[k].quantity))

\* `asks[0] && bids[0]`: both sides have a first level.
BothSides(asks, bids) == Len(asks) > 0 /\ Len(bids) > 0

\* The useMemo of the display, for the snapshot (or null) it is handed.
DisplayMetrics(book) ==
  IF ~Truthy(book)
  THEN [processedAsks |-> <<>>, processedBids |-> <<>>, spread |-> Zero,
        midPrice |-> Zero, volumeWeightedPrice |-> Zero]
  ELSE
    LET asks == Slice(book.asks)
        bids == Slice(book.bids)
        spreadValue == IF BothSides(asks, bids)
                       THEN FSub(asks[1].price, bids[1].price) ELSE Zero
        midPriceValue == IF BothSides(asks, bids)
                         THEN FDiv(FAdd(asks[1].price, bids[1].price), IntNum(2))
                         ELSE Zero
        totalBidVolume == SumQuantity(bids, Len(bids))
        totalAskVolume == SumQuantity(asks, Len(asks))
        bidVWAP == FDiv(SumNotional(bids, Len(bids)), totalBidVolume)
        askVWAP == FDiv(SumNotional(asks, Len(asks)), totalAskVolume)
        vwap == FDiv(FAdd(bidVWAP, askVWAP), IntNum(2))
    IN  [processedAsks |-> asks, processedBids |-> bids, spread |-> spreadValue,
         midPrice |-> midPriceValue,
         volumeWeightedPrice |-> IF Truthy(vwap) THEN vwap ELSE Zero]

\* `(spread / midPrice) * 100` of the Market Spread line, before toFixed.
SpreadPercent(m) == FMul(FDiv(m.spread, m.midPrice), Hundred)

\* The snapshot the consumer holds has no bids or no asks.
OneSideEmpty ==
  /\ orderbookData # Null
  /\ (orderbookData.bids = <<>> \/ orderbookData.asks = <<>>)

\* C22: for a snapshot whose bids or asks are empty, the spread percentage
\* the display shows next to the spread is not the result of a division by
\* zero: it is a number (or is not computed), never NaN.
C22_SpreadPercentDefined ==
  OneSideEmpty => Defined(SpreadPercent(DisplayMetrics(orderbookData)))


\* The sum of the quantities of the side the order walks.
OpposingSum == SumQuantity(WalkedSide, Len(WalkedSide))

\* An order has been simulated against a book.
SimulatedOnBook == orderbookData # Null /\ simulatedOrder # Null

\* C23: the market impact of the simulator is (filled / sum of the opposing
\* quantities) * 100 when that sum is greater than 0 and the number 0
\* otherwise, also for a non-empty opposing side whose quantities are all 0,
\* in the metrics of the render and in an emitted order.
C23_MarketImpactGuardedBySum ==
  SimulatedOnBook =>
    LET expected == IF Greater(OpposingSum, Zero)
                    THEN FMul(FDiv(WalkResult.totalQuantityFilled, OpposingSum), Hundred)
                    ELSE Zero
    IN  /\ metrics.marketImpact = expected
        /\ simulatedOrder.marketImpact = expected


\* The quantity typed into the form is the number 0.
ZeroQuantity == quantity # <<>> /\ OrderQuantity = Zero

\* C24: for an order of quantity 0 the simulator's estimated fill is the
\* number 0 (nothing is divided by zero), in the metrics of the render and in
\* an emitted order.
C24_ZeroQuantityZeroFill ==
  (ZeroQuantity /\ simulatedOrder # Null) =>
    /\ metrics.estimatedFill = Zero
    /\ simulatedOrder.estimatedFill = Zero


\* The quantity the loop takes from the i-th level of the walked side: none
\* when it has left the loop before that level.
TakenAt(i) ==
  LET p == RefWalk(WalkedSide, OrderQuantity, i - 1)
  IN  IF LessEq(p.remaining, Zero) THEN Zero
      ELSE MathMin(p.remaining, WalkedSide[i].quantity)

\* C29: when the simulator has filled a positive quantity, its worst price is
\* the price of a level from which a positive quantity was taken (never that
\* of a level of quantity 0 it merely visited); when it has filled nothing,
\* its worst price is 0.
C29_WorstPriceOfTakenLevel ==
  SimulatedOnBook =>
    /\ Greater(WalkResult.totalQuantityFilled, Zero) =>
         \E i \in 1..Len(WalkedSide) :
            /\ Greater(TakenAt(i), Zero)
            /\ metrics.worstPrice = WalkedSide[i].price
    /\ WalkResult.totalQuantityFilled = Zero => metrics.worstPrice = Zero


\* The side the order walks satisfies the sort invariant: best price first
\* (asks ascending for a Buy, bids descending for a Sell).
WalkedSideSorted ==
  \A i \in 1..(Len(WalkedSide) - 1) :
     IF side = "buy" THEN LessEq(WalkedSide[i].price, WalkedSide[i + 1].price)
     ELSE LessEq(WalkedSide[i + 1].price, WalkedSide[i].price)

\* x lies in [lo, hi].
Between(lo, x, hi) == LessEq(lo, x) /\ LessEq(x, hi)

\* C30: for a book whose walked side is sorted and an order that fills a
\* positive quantity, the average price lies between the best and the worst
\* price (best <= average <= worst for a Buy, worst <= average <= best for a
\* Sell), and estimated fill and market impact both lie in [0, 100].
C30_MetricsWithinBounds ==
  (SimulatedOnBook /\ WalkedSideSorted /\ Greater(WalkResult.totalQuantityFilled, Zero)) =>
    /\ IF side = "buy"
       THEN Between(BestPrice(WalkedSide), metrics.averagePrice, metrics.worstPrice)
       ELSE Between(metrics.worstPrice, metrics.averagePrice, BestPrice(WalkedSide))
    /\ Between(Zero, metrics.estimatedFill, Hundred)
    /\ Between(Zero, simulatedOrder.estimatedFill, Hundred)
    /\ Between(Zero, metrics.marketImpact, Hundred)
    /\ Between(Zero, simulatedOrder.marketImpact, Hundred)


\* C25: the status the mounted consumer sees agrees with the manager's
\* current socket (the one wsRef names): isConnected is true only while that
\* socket is open, and it is not false while that socket is open (which only
\* an error or close event of a superseded socket can make it).
C25_StatusAgreesWithCurrentSocket ==
  mounted = "mounted" => (isConnected <=> wsRef.st = "OPEN")


\* ------------------------------------------ manual reconnects, no failures
\* The consumer calls reconnect() while the connection is open.
ReconnectWhileOpen == wsRef.st = "OPEN" /\ Reconnect(FALSE)

\* The hook rendered with any key that has an endpoint, on a network without
\* transport failures and remote closes: sockets open, deliver frames and
\* close when the hook closes them; the consumer reconnects while open.
ManualInit ==
  /\ \E v \in Venues : HookInit(v, BTC_USDT)
  /\ feed = FrameNames
  /\ opsLeft = MaxUserOps
  /\ failCap = 0
  /\ ParseIdle
  /\ SimIdle

ManualNext ==
  \/ Mount(FALSE)
  \/ ReconnectWhileOpen
  \/ \E who \in Who : \E r \in Candidates(who) : OnOpen(who, r)
  \/ \E who \in Who : \E r \in Candidates(who), f \in FrameNames : OnMessage(who, r, f)
  \/ \E who \in Who : \E r \in Candidates(who) : DeliverClose(who, r)
  \/ \E who \in Who : \E h \in PendingTimers(who) : TimerFire(who, h, FALSE)

ManualSpec == ManualInit /\ [][ManualNext]_vars

\* C26: after a manual reconnect() issued while the connection is open, and
\* without any transport failure or remote close, the current connection,
\* once open, stays the current one and open: only another reconnect() of
\* the consumer replaces it, never an automatic reconnect scheduled by the
\* close of the socket that reconnect() closed.
C26_ReconnectedStaysOpen ==
  [][(wsRef.st = "OPEN" /\ wsRef' # wsRef) => ev'.op = "reconnect"]_vars


\* C27: at most one reconnect timer is pending at any time, and a pending
\* timer is the one the timer reference names (so that clearing the
\* reference cancels every pending reconnect).
C27_OnePendingTimerInRef ==
  /\ PendingCount <= 1
  /\ \A h \in AllTimers : h = reconnectTimeoutRef

\* The key of the socket that delivered the snapshot the consumer holds.
SnapshotKey == <<lastGood.venue, lastGood.symbol>>

\* C28: whenever the snapshot the mounted consumer sees is not null, it was
\* received on a socket opened for the selected (venue, symbol): after a
\* switch of venue or symbol the previous key's snapshot is not exposed, and
\* a message the old socket delivers late does not replace it.
C28_SnapshotOfSelectedKey ==
  (mounted = "mounted" /\ orderbookData # Null) => SnapshotKey = <<venue, symbol>>

====
